---- MODULE Spec2Model ----
(***************************************************************************)
(* yubiswitch.py: toggling the usbhid binding of Yubico USB interfaces.    *)
(*                                                                         *)
(* Strings are sequences of one-character strings, so that the character   *)
(* set test of get_yubikeys, str.strip() and the exact comparison with     *)
(* 'Yubico\n' are computed character by character.                         *)
(*                                                                         *)
(* The operating system is the environment: `driver` is the set of names   *)
(* present under /sys/bus/usb/drivers/usbhid, `tree` is the content of     *)
(* /sys/bus/usb/devices/.                                                  *)
(***************************************************************************)
EXTENDS Integers, Sequences, FiniteSets, TLC

VARIABLES
    driver,     \* names bound to usbhid (entries of the driver directory)
    calls,      \* the YubiKey method calls made so far, and outside changes
    writes,     \* the control-file writes this process issued, in order
    pc,         \* where main() is
    argv,       \* sys.argv[1:]
    euid,       \* os.geteuid()
    tree,       \* /sys/bus/usb/devices/ in listing order
    yubikeys,   \* main's list of YubiKey objects
    idx,        \* number of list elements the for loop has consumed
    scans,      \* one record per get_yubikeys call: the paths it touched
    sudo,       \* the command lines handed to subprocess.check_call
    status      \* exit status of the process, -1 while it runs

vars == <<driver, calls, writes, pc, argv, euid, tree, yubikeys, idx,
          scans, sudo, status>>

-----------------------------------------------------------------------------
(* Bounds *)

MaxCalls == 3        \* method calls and outside changes in ControlSpec
MaxNodes == 4        \* top-level entries plus sub-entries of a device tree
MaxExternal == 1     \* outside changes of the driver directory during main

-----------------------------------------------------------------------------
(* Strings *)

\* '1-2:1.0', '1-2:1.1': interface names as the kernel spells them
IfA == <<"1", "-", "2", ":", "1", ".", "0">>
IfB == <<"1", "-", "2", ":", "1", ".", "1">>

Ids == {IfA, IfB}

\* '1-2x': a name with one character outside the identifier alphabet
Mixed == <<"1", "-", "2", "x">>

\* set('0123456789-:.')
IdChars == {"0", "1", "2", "3", "4", "5", "6", "7", "8", "9", "-", ":", "."}

\* the characters str.strip() removes
Whitespace == {" ", "\t", "\n", "\r", "\f"}

\* 'Yubico\n'
Yubico_nl == <<"Y", "u", "b", "i", "c", "o", "\n">>

\* other contents a manufacturer file can have:
\* 'Yubico', 'yubico\n', 'Yubico \n'
Yubico_bare == <<"Y", "u", "b", "i", "c", "o">>
Yubico_lower == <<"y", "u", "b", "i", "c", "o", "\n">>
Yubico_space == <<"Y", "u", "b", "i", "c", "o", " ", "\n">>

\* contents of a product file: 'YubiKey 5\n', ' NEO \n'
ProdA == <<"Y", "u", "b", "i", "K", "e", "y", " ", "5", "\n">>
ProdB == <<" ", "N", "E", "O", " ", "\n">>

Range(s) == {s[k] : k \in 1..Len(s)}

RECURSIVE lstrip(_)
lstrip(s) ==
    IF s # <<>> /\ Head(s) \in Whitespace THEN lstrip(Tail(s)) ELSE s

RECURSIVE rstrip(_)
rstrip(s) ==
    IF s # <<>> /\ s[Len(s)] \in Whitespace
    THEN rstrip(SubSeq(s, 1, Len(s) - 1))
    ELSE s

\* str.strip()
strip(s) == rstrip(lstrip(s))

-----------------------------------------------------------------------------
(* class YubiKey *)

\* YubiKey(dev_id, product)
YubiKey(dev_id, product) == [dev_id |-> dev_id, product |-> product]

\* What the kernel does with a successful write to a control file.
sysfs_store(drv, file, data) ==
    IF file = "bind" THEN drv \cup {data} ELSE drv \ {data}

\* The I/O failures one method call can meet.  "lstat": os.lstat raises
\* something other than FileNotFoundError; "open": open(..., 'w') raises;
\* "write": the kernel rejects the written name, raised when the with
\* block flushes and closes the file.
Faults == {"none", "lstat", "open", "write"}

\* Faulty variant: lstat of the driver directory itself, which always exists.
is_active_always(dev_id, drv, io) ==
    IF io = "lstat"
    THEN [outcome |-> "raised", ret |-> FALSE]
    ELSE [outcome |-> "returned", ret |-> TRUE]

\* is_active: bool(os.lstat(path)) is True for any stat result,
\* FileNotFoundError gives False, any other error propagates.
is_active(dev_id, drv, io) ==
    IF io = "lstat"
    THEN [outcome |-> "raised", ret |-> FALSE]
    ELSE [outcome |-> "returned", ret |-> dev_id \in drv]

\* Faulty variant: a rejected write is tried a second time.
write_control_retry(file, data, drv, io) ==
    CASE io = "open"  -> [outcome |-> "raised", writes |-> <<>>, driver |-> drv]
      [] io = "write" -> [outcome |-> "raised",
                          writes |-> <<[file |-> file, data |-> data, ok |-> FALSE],
                                       [file |-> file, data |-> data, ok |-> FALSE]>>,
                          driver |-> drv]
      [] OTHER        -> [outcome |-> "returned",
                          writes |-> <<[file |-> file, data |-> data, ok |-> TRUE]>>,
                          driver |-> sysfs_store(drv, file, data)]

\* open(file, 'w'); fd.write(data); close
write_control(file, data, drv, io) ==
    CASE io = "open"  -> [outcome |-> "raised", writes |-> <<>>, driver |-> drv]
      [] io = "write" -> [outcome |-> "raised",
                          writes |-> <<[file |-> file, data |-> data, ok |-> FALSE]>>,
                          driver |-> drv]
      [] OTHER        -> [outcome |-> "returned",
                          writes |-> <<[file |-> file, data |-> data, ok |-> TRUE]>>,
                          driver |-> sysfs_store(drv, file, data)]

\* Faulty variant: no is_active test before the write.
activate_always(dev_id, drv, io) ==
    LET w == write_control("bind", dev_id, drv, io) IN
    [outcome |-> w.outcome, ret |-> w.outcome = "returned",
     writes |-> w.writes, driver |-> w.driver]

\* Faulty variant: the identifier goes to the unbind file.
activate_unbind(dev_id, drv, io) ==
    LET q == is_active(dev_id, drv, io) IN
    IF q.outcome = "raised"
    THEN [outcome |-> "raised", ret |-> FALSE, writes |-> <<>>, driver |-> drv]
    ELSE IF q.ret
    THEN [outcome |-> "returned", ret |-> FALSE, writes |-> <<>>, driver |-> drv]
    ELSE LET w == write_control("unbind", dev_id, drv, io) IN
         [outcome |-> w.outcome, ret |-> w.outcome = "returned",
          writes |-> w.writes, driver |-> w.driver]

activate(dev_id, drv, io) ==
    LET q == is_active(dev_id, drv, io) IN
    IF q.outcome = "raised"
    THEN [outcome |-> "raised", ret |-> FALSE, writes |-> <<>>, driver |-> drv]
    ELSE IF q.ret
    THEN [outcome |-> "returned", ret |-> FALSE, writes |-> <<>>, driver |-> drv]
    ELSE LET w == write_control("bind", dev_id, drv, io) IN
         [outcome |-> w.outcome, ret |-> w.outcome = "returned",
          writes |-> w.writes, driver |-> w.driver]

\* Faulty variant: no is_active test before the write.
deactivate_always(dev_id, drv, io) ==
    LET w == write_control("unbind", dev_id, drv, io) IN
    [outcome |-> w.outcome, ret |-> w.outcome = "returned",
     writes |-> w.writes, driver |-> w.driver]

deactivate(dev_id, drv, io) ==
    LET q == is_active(dev_id, drv, io) IN
    IF q.outcome = "raised"
    THEN [outcome |-> "raised", ret |-> FALSE, writes |-> <<>>, driver |-> drv]
    ELSE IF ~q.ret
    THEN [outcome |-> "returned", ret |-> FALSE, writes |-> <<>>, driver |-> drv]
    ELSE LET w == write_control("unbind", dev_id, drv, io) IN
         [outcome |-> w.outcome, ret |-> w.outcome = "returned",
          writes |-> w.writes, driver |-> w.driver]

\* The record kept of one call
Call(op, dev_id, drv, r) ==
    [op |-> op, dev_id |-> dev_id, pre |-> drv, post |-> r.driver,
     outcome |-> r.outcome, ret |-> r.ret, writes |-> r.writes]

CallsOf(op) == {i \in 1..Len(calls) : calls[i].op = op}

-----------------------------------------------------------------------------
(* The YubiKey methods called in any order, on any identifier *)

IdleMain ==
    /\ pc = "idle" /\ argv = <<>> /\ euid = 0 /\ tree = <<>>
    /\ yubikeys = <<>> /\ idx = 0 /\ scans = <<>> /\ sudo = <<>> /\ status = -1

InitControl ==
    /\ driver \in SUBSET Ids
    /\ calls = <<>>
    /\ writes = <<>>
    /\ IdleMain

mainVars == <<pc, argv, euid, tree, yubikeys, idx, scans, sudo, status>>

CallActivate ==
    \E id \in Ids, io \in Faults :
        LET r == activate(id, driver, io) IN
        /\ Len(calls) < MaxCalls
        /\ driver' = r.driver
        /\ writes' = writes \o r.writes
        /\ calls' = Append(calls, Call("activate", id, driver, r))
        /\ UNCHANGED mainVars

CallDeactivate ==
    \E id \in Ids, io \in Faults :
        LET r == deactivate(id, driver, io) IN
        /\ Len(calls) < MaxCalls
        /\ driver' = r.driver
        /\ writes' = writes \o r.writes
        /\ calls' = Append(calls, Call("deactivate", id, driver, r))
        /\ UNCHANGED mainVars

CallIsActive ==
    \E id \in Ids, io \in {"none", "lstat"} :
        LET q == is_active(id, driver, io)
            r == [outcome |-> q.outcome, ret |-> q.ret, writes |-> <<>>,
                  driver |-> driver] IN
        /\ Len(calls) < MaxCalls
        /\ calls' = Append(calls, Call("is_active", id, driver, r))
        /\ UNCHANGED <<driver, writes>>
        /\ UNCHANGED mainVars

\* Someone else binds or unbinds an interface (manual operation, other
\* tooling, replug).
ExternalChange(id) ==
    LET drv == IF id \in driver THEN driver \ {id} ELSE driver \cup {id}
        r == [outcome |-> "returned", ret |-> FALSE, writes |-> <<>>,
              driver |-> drv] IN
    /\ driver' = drv
    /\ calls' = Append(calls, Call("external", id, driver, r))
    /\ UNCHANGED writes

ControlExternal ==
    \E id \in Ids :
        /\ Len(calls) < MaxCalls
        /\ ExternalChange(id)
        /\ UNCHANGED mainVars

NextControl ==
    \/ CallActivate
    \/ CallDeactivate
    \/ CallIsActive
    \/ ControlExternal

ControlSpec == InitControl /\ [][NextControl]_vars

-----------------------------------------------------------------------------
(* Properties of the YubiKey methods, checked under ControlSpec *)

BindWrites(ws) == {i \in 1..Len(ws) : ws[i].file = "bind"}
UnbindWrites(ws) == {i \in 1..Len(ws) : ws[i].file = "unbind"}

\* C1: every activate call on an identifier that is_active reports active
\* writes nothing, leaves the driver directory as it was and, when it
\* returns, returns False; every activate call on an inactive identifier
\* that returns has written exactly that identifier to bind, once, and
\* returned True; no activate call ever writes to unbind or writes another
\* string.
C1_ActivateContract ==
    \A i \in CallsOf("activate") :
        LET c == calls[i] IN
        /\ c.dev_id \in c.pre =>
              /\ c.writes = <<>>
              /\ c.post = c.pre
              /\ c.outcome = "returned" => c.ret = FALSE
        /\ (c.dev_id \notin c.pre /\ c.outcome = "returned") =>
              /\ c.ret = TRUE
              /\ Len(c.writes) = 1
        /\ \A k \in 1..Len(c.writes) :
              c.writes[k].file = "bind" /\ c.writes[k].data = c.dev_id

C1_Witness ==
    /\ \E i \in CallsOf("activate") :
          calls[i].dev_id \in calls[i].pre /\ calls[i].outcome = "returned"
    /\ \E i \in CallsOf("activate") :
          calls[i].dev_id \notin calls[i].pre /\ calls[i].ret = TRUE

ThenQueried(i, op) ==
    /\ i + 1 <= Len(calls)
    /\ calls[i].op = op
    /\ calls[i].outcome = "returned"
    /\ calls[i + 1].op = "is_active"
    /\ calls[i + 1].dev_id = calls[i].dev_id
    /\ calls[i + 1].outcome = "returned"

\* C3: is_active right after an activate that returned yields True, right
\* after a deactivate that returned yields False, whatever the state
\* before; an is_active that returns yields a boolean, True exactly when
\* the identifier is in the driver directory; activate and deactivate
\* leave every other identifier as it was.
C3_ToggleThenQuery ==
    /\ \A i \in 1..Len(calls) :
          /\ ThenQueried(i, "activate") => calls[i + 1].ret = TRUE
          /\ ThenQueried(i, "deactivate") => calls[i + 1].ret = FALSE
    /\ \A i \in CallsOf("is_active") :
          calls[i].outcome = "returned" =>
              /\ calls[i].ret \in BOOLEAN
              /\ calls[i].ret = (calls[i].dev_id \in calls[i].pre)
    /\ \A i \in CallsOf("activate") \cup CallsOf("deactivate") :
          calls[i].post \ {calls[i].dev_id} = calls[i].pre \ {calls[i].dev_id}

C3_Witness ==
    \E i \in 1..Len(calls) :
        /\ ThenQueried(i, "activate") /\ calls[i].dev_id \notin calls[i].pre
        /\ calls[i].pre # {}
        /\ calls[i + 1].ret = TRUE

C3_WitnessDeactivate ==
    \E i \in 1..Len(calls) :
        /\ ThenQueried(i, "deactivate") /\ calls[i].dev_id \in calls[i].pre
        /\ calls[i].pre \ {calls[i].dev_id} # {}
        /\ calls[i + 1].ret = FALSE

\* calls[i] and calls[i+1] are the same method on the same identifier and
\* both returned.
Twice(i, op) ==
    /\ i + 1 <= Len(calls)
    /\ calls[i].op = op /\ calls[i + 1].op = op
    /\ calls[i + 1].dev_id = calls[i].dev_id
    /\ calls[i].outcome = "returned" /\ calls[i + 1].outcome = "returned"

C4_WitnessDeactivate ==
    \E i \in 1..Len(calls) :
        /\ Twice(i, "deactivate") /\ calls[i].dev_id \in calls[i].pre
        /\ calls[i + 1].ret = FALSE

-----------------------------------------------------------------------------
(* get_yubikeys *)

\* A file read either gives the content or raises an OSError.
File(data) == [err |-> "none", data |-> data]
Unreadable(err) == [err |-> err, data |-> <<>>]

\* except (OSError, IOError): FileNotFoundError, PermissionError and
\* NotADirectoryError are all OSError, and IOError is OSError.
OSErrors == {"ENOENT", "EACCES", "ENOTDIR"}

\* Faulty variant: except FileNotFoundError.
caught_only_not_found(err) == err = "ENOENT"

caught(err) == err \in OSErrors

\* Faulty variant: manufacturer.strip() == 'Yubico'.
is_yubico_stripped(manufacturer) == strip(manufacturer) = strip(Yubico_nl)

\* manufacturer == 'Yubico\n'
is_yubico(manufacturer) == manufacturer = Yubico_nl

\* Faulty variant: some character of the name is in the alphabet.
charset_any(subdev) == Range(subdev) \cap IdChars # {}

\* set(subdev).issubset(set('0123456789-:.'))
charset_ok(subdev) == Range(subdev) \subseteq IdChars

access(op, top, sub) == [op |-> op, top |-> top, sub |-> sub]

\* The loop over os.listdir(os.path.join(basepath, dev_id)), from its j-th
\* element on: acc.yubikeys is the list so far, acc.opened the paths
\* touched so far.
RECURSIVE subdevs(_, _, _, _, _)
subdevs(subs, j, top, product, acc) ==
    IF j > Len(subs) THEN acc
    ELSE LET seen == Append(acc.opened, access("isdir", top, j)) IN
         IF ~subs[j].isdir
         THEN subdevs(subs, j + 1, top, product, [acc EXCEPT !.opened = seen])
         ELSE IF ~charset_ok(subs[j].name)
         THEN subdevs(subs, j + 1, top, product, [acc EXCEPT !.opened = seen])
         ELSE subdevs(subs, j + 1, top, product,
                      [yubikeys |-> Append(acc.yubikeys,
                                           YubiKey(subs[j].name, product)),
                       opened |-> seen])

\* The loop over os.listdir(basepath), from its i-th element on.
RECURSIVE scan(_, _, _)
scan(devices, i, acc) ==
    IF i > Len(devices)
    THEN [outcome |-> "returned", yubikeys |-> acc.yubikeys,
          opened |-> acc.opened]
    ELSE LET e == devices[i]
             o1 == Append(acc.opened, access("manufacturer", i, 0)) IN
         IF e.manufacturer.err # "none"
         THEN IF caught(e.manufacturer.err)
              THEN scan(devices, i + 1, [acc EXCEPT !.opened = o1])
              ELSE [outcome |-> "raised", yubikeys |-> <<>>, opened |-> o1]
         ELSE IF ~is_yubico(e.manufacturer.data)
         THEN scan(devices, i + 1, [acc EXCEPT !.opened = o1])
         ELSE LET o2 == Append(o1, access("product", i, 0)) IN
              IF e.product.err # "none"
              THEN [outcome |-> "raised", yubikeys |-> <<>>, opened |-> o2]
              ELSE scan(devices, i + 1,
                        subdevs(e.subs, 1, i, strip(e.product.data),
                                [yubikeys |-> acc.yubikeys,
                                 opened |-> Append(o2, access("listdir", i, 0))]))

\* get_yubikeys(debug): debug only adds print calls.
get_yubikeys(devices) == scan(devices, 1, [yubikeys |-> <<>>, opened |-> <<>>])

-----------------------------------------------------------------------------
(* get_yubikeys applied to every device tree of at most MaxNodes nodes *)

SubNames == {IfA, IfB, Mixed}

\* A top-level entry's manufacturer and product files.  For an entry that
\* is not Yubico's the product file is unreadable: reading it would abort
\* the scan.
Attributes ==
    {[manufacturer |-> File(Yubico_nl), product |-> p] :
        p \in {File(ProdA), File(ProdB), Unreadable("EACCES")}}
    \cup
    {[manufacturer |-> m, product |-> Unreadable("EACCES")] :
        m \in {Unreadable("ENOENT"), Unreadable("EACCES"), File(Yubico_bare),
               File(Yubico_lower), File(Yubico_space)}}

RECURSIVE Nodes(_)
Nodes(devices) ==
    IF devices = <<>> THEN 0
    ELSE 1 + Len(Head(devices).subs) + Nodes(Tail(devices))

InitDiscovery ==
    /\ tree = <<>>
    /\ driver = {} /\ calls = <<>> /\ writes = <<>>
    /\ IdleMain

\* A device appears at the end of the listing of /sys/bus/usb/devices/.
PlugDevice ==
    \E a \in Attributes :
        /\ pc = "idle"
        /\ Nodes(tree) < MaxNodes
        /\ tree' = Append(tree, [manufacturer |-> a.manufacturer,
                                 product |-> a.product, subs |-> <<>>])
        /\ UNCHANGED <<driver, calls, writes, pc, argv, euid, yubikeys, idx,
                       scans, sudo, status>>

\* An entry appears in the directory of the last device; names are unique
\* within a directory.
AddSubEntry ==
    \E nm \in SubNames, d \in BOOLEAN :
        /\ pc = "idle"
        /\ tree # <<>>
        /\ Nodes(tree) < MaxNodes
        /\ \A j \in 1..Len(tree[Len(tree)].subs) :
              tree[Len(tree)].subs[j].name # nm
        /\ tree' = [tree EXCEPT ![Len(tree)].subs =
                        Append(@, [name |-> nm, isdir |-> d])]
        /\ UNCHANGED <<driver, calls, writes, pc, argv, euid, yubikeys, idx,
                       scans, sudo, status>>

CallGetYubikeys ==
    LET r == get_yubikeys(tree) IN
    /\ pc = "idle"
    /\ pc' = "scanned"
    /\ scans' = Append(scans, r)
    /\ yubikeys' = r.yubikeys
    /\ UNCHANGED <<driver, calls, writes, argv, euid, tree, idx, sudo, status>>

NextDiscovery ==
    \/ PlugDevice
    \/ AddSubEntry
    \/ CallGetYubikeys

DiscoverySpec == InitDiscovery /\ [][NextDiscovery]_vars

-----------------------------------------------------------------------------------------------------------------------------------------------------
(* main *)

Commands == {"on", "off", "list"}

\* the command lines argparse accepts
Argvs == UNION {{<<c>>, <<"-d", c>>, <<c, "--debug">>} : c \in Commands}

\* sys.argv
sys_argv(args) == <<"yubiswitch.py">> \o args

\* args.command
command(args) == CHOOSE c \in Commands : c \in Range(args)

Entry(manufacturer, product, subs) ==
    [manufacturer |-> manufacturer, product |-> product, subs |-> subs]

Dir(name) == [name |-> name, isdir |-> TRUE]

\* the device trees main is run on
SampleTrees ==
    { <<>>,
      <<Entry(File(Yubico_nl), File(ProdA), <<Dir(IfA), Dir(IfB)>>)>>,
      <<Entry(Unreadable("EACCES"), Unreadable("EACCES"), <<Dir(IfA)>>),
        Entry(File(Yubico_nl), File(ProdB), <<Dir(IfB), Dir(Mixed), Dir(IfA)>>)>>,
      <<Entry(File(Yubico_nl), Unreadable("EACCES"), <<Dir(IfA)>>)>> }

\* what subprocess.check_call(['sudo'] + argv) can do: return 0, raise
\* CalledProcessError with the child's exit code, or fail to start sudo
ExitCodes == {0, 1, 2}

Init ==
    /\ driver \in SUBSET Ids
    /\ calls = <<>>
    /\ writes = <<>>
    /\ pc = "main"
    /\ argv \in Argvs
    /\ euid \in {0, 1000}
    /\ tree \in SampleTrees
    /\ yubikeys = <<>>
    /\ idx = 0
    /\ scans = <<>>
    /\ sudo = <<>>
    /\ status = -1

\* Faulty variant: list escalates too.
needs_root_always(cmd, uid) == uid # 0

\* args.command in ('on', 'off') and os.geteuid() != 0
needs_root(cmd, uid) == cmd \in {"on", "off"} /\ uid # 0

\* rerun_as_root(): every path ends in sys.exit or an uncaught exception.
\* The child, and anyone else, may rebind interfaces meanwhile.
rerun_as_root ==
    \E ran \in BOOLEAN, rc \in ExitCodes :
        /\ sudo' = Append(sudo, [cmd |-> <<"sudo">> \o sys_argv(argv),
                                 ran |-> ran,
                                 returncode |-> IF ran THEN rc ELSE -1])
        /\ status' = IF ran THEN rc ELSE 1
        /\ pc' = "exited"
        /\ driver' \in SUBSET Ids
        /\ UNCHANGED <<calls, writes, argv, euid, tree, yubikeys, idx, scans>>

\* main, lines 103-104
Main_CheckPrivilege ==
    /\ pc = "main"
    /\ IF needs_root(command(argv), euid)
       THEN rerun_as_root
       ELSE /\ pc' = "get_yubikeys"
            /\ UNCHANGED <<driver, calls, writes, argv, euid, tree, yubikeys,
                           idx, scans, sudo, status>>

\* main, line 106: an exception of get_yubikeys ends the process
Main_GetYubikeys ==
    LET r == get_yubikeys(tree) IN
    /\ pc = "get_yubikeys"
    /\ scans' = Append(scans, r)
    /\ IF r.outcome = "raised"
       THEN pc' = "exited" /\ status' = 1 /\ UNCHANGED yubikeys
       ELSE pc' = "loop" /\ yubikeys' = r.yubikeys /\ UNCHANGED status
    /\ UNCHANGED <<driver, calls, writes, argv, euid, tree, idx, sudo>>

\* the method each command calls on a YubiKey
method_name(cmd) ==
    CASE cmd = "on" -> "activate" [] cmd = "off" -> "deactivate"
      [] OTHER -> "is_active"

method(cmd, dev_id, drv, io) ==
    CASE cmd = "on" -> activate(dev_id, drv, io)
      [] cmd = "off" -> deactivate(dev_id, drv, io)
      [] OTHER -> LET q == is_active(dev_id, drv, io) IN
                  [outcome |-> q.outcome, ret |-> q.ret, writes |-> <<>>,
                   driver |-> drv]

\* Faulty variant: an exception of the method is swallowed and the loop goes on.
Main_LoopCatching ==
    /\ pc = "loop"
    /\ idx < Len(yubikeys)
    /\ \E io \in Faults :
          LET id == yubikeys[idx + 1].dev_id
              r == method(command(argv), id, driver, io) IN
          /\ driver' = r.driver
          /\ writes' = writes \o r.writes
          /\ calls' = Append(calls, Call(method_name(command(argv)), id, driver, r))
          /\ idx' = idx + 1
          /\ UNCHANGED <<pc, status>>
    /\ UNCHANGED <<argv, euid, tree, yubikeys, scans, sudo>>

\* main, lines 107-126: one iteration of the for loop of the command; an
\* exception of the method ends the process
Main_Loop ==
    /\ pc = "loop"
    /\ idx < Len(yubikeys)
    /\ \E io \in Faults :
          LET id == yubikeys[idx + 1].dev_id
              r == method(command(argv), id, driver, io) IN
          /\ driver' = r.driver
          /\ writes' = writes \o r.writes
          /\ calls' = Append(calls, Call(method_name(command(argv)), id, driver, r))
          /\ IF r.outcome = "raised"
             THEN pc' = "exited" /\ status' = 1 /\ UNCHANGED idx
             ELSE idx' = idx + 1 /\ UNCHANGED <<pc, status>>
    /\ UNCHANGED <<argv, euid, tree, yubikeys, scans, sudo>>

\* main returns when the list is exhausted
Main_Return ==
    /\ pc = "loop"
    /\ idx = Len(yubikeys)
    /\ pc' = "exited"
    /\ status' = 0
    /\ UNCHANGED <<driver, calls, writes, argv, euid, tree, yubikeys, idx,
                   scans, sudo>>

\* Someone else rebinds an interface while main runs.
MainExternal ==
    \E id \in Ids :
        /\ pc \in {"get_yubikeys", "loop"}
        /\ Cardinality(CallsOf("external")) < MaxExternal
        /\ ExternalChange(id)
        /\ UNCHANGED mainVars

Next ==
    \/ Main_CheckPrivilege
    \/ Main_GetYubikeys
    \/ Main_Loop
    \/ Main_Return
    \/ MainExternal

Spec == Init /\ [][Next]_vars

-----
(* Properties of get_yubikeys, checked under DiscoverySpec *)

\* the content is exactly 'Yubico\n', character for character
ExactlyYubico(m) ==
    /\ m.err = "none"
    /\ Len(m.data) = 7
    /\ m.data[1] = "Y" /\ m.data[2] = "u" /\ m.data[3] = "b" /\ m.data[4] = "i"
    /\ m.data[5] = "c" /\ m.data[6] = "o" /\ m.data[7] = "\n"

\* the accesses of scan s below top-level entry i, its manufacturer file
\* apart
Below(s, i) ==
    {k \in 1..Len(s.opened) :
        s.opened[k].top = i /\ s.opened[k].op # "manufacturer"}

Opened(s, op, i) ==
    \E k \in 1..Len(s.opened) : s.opened[k].op = op /\ s.opened[k].top = i

RECURSIVE Matching(_)
Matching(devices) ==
    IF devices = <<>> THEN <<>>
    ELSE IF ExactlyYubico(Head(devices).manufacturer)
    THEN <<Head(devices)>> \o Matching(Tail(devices))
    ELSE Matching(Tail(devices))

\* C5: every handle get_yubikeys returns is named after a sub-entry of a
\* top-level entry whose manufacturer file reads exactly 'Yubico\n'; for
\* an entry whose manufacturer file is missing or reads anything else,
\* neither the product file nor the directory nor any sub-entry is
\* touched, and the result is the one the scan gives with those entries
\* removed from the tree.
C5_VendorFilter ==
    \A n \in 1..Len(scans) :
        LET s == scans[n] IN
        /\ \A h \in 1..Len(s.yubikeys) :
              \E i \in 1..Len(tree) :
                  /\ ExactlyYubico(tree[i].manufacturer)
                  /\ \E j \in 1..Len(tree[i].subs) :
                        tree[i].subs[j].name = s.yubikeys[h].dev_id
        /\ \A i \in 1..Len(tree) :
              ~ExactlyYubico(tree[i].manufacturer) => Below(s, i) = {}
        /\ s.yubikeys = get_yubikeys(Matching(tree)).yubikeys

\* a handle is returned from a tree that also holds an entry whose
\* manufacturer file reads 'Yubico' without the newline and which has a
\* directory with a valid name
C5_Witness ==
    /\ Len(scans) = 1
    /\ scans[1].outcome = "returned"
    /\ Len(scans[1].yubikeys) = 1
    /\ \E i \in 1..Len(tree) :
          /\ tree[i].manufacturer = File(Yubico_bare)
          /\ tree[i].subs = <<[name |-> IfA, isdir |-> TRUE]>>

AllIdChars(name) == \A k \in 1..Len(name) : name[k] \in IdChars

\* s without the whitespace at its two ends, said without str.strip()
Stripped(s) ==
    CHOOSE t \in {SubSeq(s, a, b) : a \in 1..Len(s) + 1, b \in 0..Len(s)} :
        \E a \in 1..Len(s) + 1, b \in 0..Len(s) :
            /\ t = SubSeq(s, a, b)
            /\ \A k \in 1..Len(s) : (k < a \/ k > b) => s[k] \in Whitespace
            /\ t # <<>> => (t[1] \notin Whitespace /\ t[Len(t)] \notin Whitespace)

\* the handles of one Yubico entry, in listing order
RECURSIVE HandlesOf(_, _)
HandlesOf(subs, product) ==
    IF subs = <<>> THEN <<>>
    ELSE IF Head(subs).isdir /\ AllIdChars(Head(subs).name)
    THEN <<[dev_id |-> Head(subs).name, product |-> Stripped(product)]>>
         \o HandlesOf(Tail(subs), product)
    ELSE HandlesOf(Tail(subs), product)

RECURSIVE Expected(_)
Expected(devices) ==
    IF devices = <<>> THEN <<>>
    ELSE IF ExactlyYubico(Head(devices).manufacturer)
    THEN HandlesOf(Head(devices).subs, Head(devices).product.data)
         \o Expected(Tail(devices))
    ELSE Expected(Tail(devices))

\* C7: when get_yubikeys returns, its result is, parent by parent in
\* listing order and sub-entry by sub-entry in listing order, one handle
\* for each sub-entry of a Yubico parent that is a directory and whose name
\* has only characters of 0-9 - : . , with the sub-entry's name as dev_id
\* and the parent's product content stripped of surrounding whitespace as
\* product, and nothing else.
C7_SubEntryFilter ==
    \A n \in 1..Len(scans) :
        scans[n].outcome = "returned" => scans[n].yubikeys = Expected(tree)

\* two parents with different products, one handle each
C7_Witness ==
    /\ Len(scans) = 1
    /\ scans[1].outcome = "returned"
    /\ Len(tree) = 2
    /\ scans[1].yubikeys =
          <<[dev_id |-> IfB, product |-> <<"N", "E", "O">>],
            [dev_id |-> IfA,
             product |-> <<"Y", "u", "b", "i", "K", "e", "y", " ", "5">>]>>

\* one parent: a directory with a valid name, a directory with an invalid
\* name, a non-directory with a valid name
C7_WitnessFilter ==
    /\ Len(scans) = 1
    /\ Len(tree) = 1
    /\ Len(tree[1].subs) = 3
    /\ \E j \in 1..3 : tree[1].subs[j] = [name |-> IfA, isdir |-> FALSE]
    /\ \E j \in 1..3 : tree[1].subs[j] = [name |-> Mixed, isdir |-> TRUE]
    /\ Len(scans[1].yubikeys) = 1

-----------------------------------------------------------------------------
(* Properties of main, checked under Spec *)

\* the method calls of this process, outside changes left out
OwnCalls == SelectSeq(calls, LAMBDA c : c.op # "external")

RECURSIVE WritesOf(_)
WritesOf(cs) ==
    IF cs = <<>> THEN <<>> ELSE Head(cs).writes \o WritesOf(Tail(cs))

OnOrOff == "on" \in Range(argv) \/ "off" \in Range(argv)

\* C8: once past its privilege check the process has run sudo, once and
\* with 'sudo' followed by its own unchanged argument vector, exactly when
\* the command is on or off and the effective uid is not 0; a process that
\* ran sudo has exited without scanning, calling a YubiKey method or
\* writing a control file, with the child's exit code as its status when
\* the child ran; the list command never runs sudo and never writes a
\* control file.
C8_PrivilegeGating ==
    /\ pc = "main" => sudo = <<>>
    /\ pc # "main" => (sudo # <<>> <=> (OnOrOff /\ euid # 0))
    /\ Len(sudo) <= 1
    /\ sudo # <<>> =>
          /\ sudo[1].cmd = <<"sudo", "yubiswitch.py">> \o argv
          /\ pc = "exited"
          /\ scans = <<>> /\ OwnCalls = <<>> /\ writes = <<>> /\ yubikeys = <<>>
          /\ sudo[1].ran => status = sudo[1].returncode
    /\ "list" \in Range(argv) => (sudo = <<>> /\ writes = <<>>)

\* an unprivileged off whose child exited with code 2
C8_Witness ==
    /\ pc = "exited"
    /\ euid # 0
    /\ argv = <<"-d", "off">>
    /\ Len(sudo) = 1 /\ sudo[1].ran /\ sudo[1].returncode = 2
    /\ status = 2
    /\ tree # <<>>

\* an unprivileged list that ran to its end and queried both devices
C8_WitnessList ==
    /\ pc = "exited" /\ euid # 0 /\ "list" \in Range(argv)
    /\ Len(OwnCalls) = 2 /\ status = 0

WriteFailed(c) ==
    /\ c.outcome = "raised"
    /\ c.writes # <<>>
    /\ ~c.writes[Len(c.writes)].ok

\* C9 as stated: after a failed bind or unbind write the remaining devices
\* are still processed, so a finished on/off run has called its method on
\* every discovered device.
C9_BatchContinues ==
    (/\ pc = "exited"
     /\ \E k \in 1..Len(OwnCalls) : WriteFailed(OwnCalls[k]))
    => Len(OwnCalls) = Len(yubikeys)

\* C9, amended: a failed bind or unbind write is reported by ending the
\* process with a non-zero status; the failing call wrote once and to the
\* one control file of its command (no retry, no other strategy); it is the
\* last method call of the process, so the devices after it in the list are
\* not processed.
C9_FailureAborts ==
    \A k \in 1..Len(OwnCalls) :
        WriteFailed(OwnCalls[k]) =>
            /\ pc = "exited" /\ status = 1
            /\ Len(OwnCalls[k].writes) = 1
            /\ OwnCalls[k].writes[1].data = OwnCalls[k].dev_id
            /\ OwnCalls[k].writes[1].file =
                  (IF "on" \in Range(argv) THEN "bind" ELSE "unbind")
            /\ k = Len(OwnCalls)
            /\ idx = k - 1
            /\ \A m \in k + 1..Len(yubikeys) :
                  \A w \in 1..Len(writes) :
                      writes[w].data = yubikeys[m].dev_id
                      => \E j \in 1..k : yubikeys[j].dev_id = yubikeys[m].dev_id

\* the bind write for the first of two devices failed: the second device
\* was never touched
C9_Witness ==
    /\ pc = "exited"
    /\ Len(yubikeys) = 2
    /\ Len(OwnCalls) = 1
    /\ WriteFailed(OwnCalls[1])
    /\ OwnCalls[1].op = "activate"
    /\ writes = <<[file |-> "bind", data |-> yubikeys[1].dev_id, ok |-> FALSE]>>

\* C10: an on/off run scans once; its method calls are the command's
\* method applied to the scanned handles in order, each deciding on the
\* driver directory as it is at that call; the control-file writes of the
\* process are exactly those of these calls; a call that raises is the
\* last one and ends the process, so no later device is written for; and
\* no call undoes an earlier one: on only ever binds, off only ever
\* unbinds.
C10_SequentialAbort ==
    LET oc == OwnCalls IN
    /\ Len(scans) <= 1
    /\ (pc = "loop" \/ oc # <<>>) => (Len(scans) = 1 /\ yubikeys = scans[1].yubikeys)
    /\ Len(oc) <= Len(yubikeys)
    /\ \A k \in 1..Len(oc) :
          /\ oc[k].dev_id = yubikeys[k].dev_id
          /\ oc[k].op = (IF "on" \in Range(argv) THEN "activate"
                         ELSE IF "off" \in Range(argv) THEN "deactivate"
                         ELSE "is_active")
          /\ oc[k].op = "activate" =>
                /\ oc[k].writes # <<>> <=>
                      ((oc[k].dev_id \notin oc[k].pre /\ oc[k].outcome = "returned")
                       \/ WriteFailed(oc[k]))
                /\ oc[k].pre \subseteq oc[k].post
          /\ oc[k].op = "deactivate" =>
                /\ oc[k].writes # <<>> <=>
                      ((oc[k].dev_id \in oc[k].pre /\ oc[k].outcome = "returned")
                       \/ WriteFailed(oc[k]))
                /\ oc[k].post \subseteq oc[k].pre
          /\ oc[k].outcome = "raised" =>
                (k = Len(oc) /\ pc = "exited" /\ status # 0)
          /\ k < Len(oc) => oc[k].outcome = "returned"
    /\ writes = WritesOf(oc)
    /\ pc = "exited" => (status = 0 <=>
                            (/\ sudo = <<>> \/ sudo[1].returncode = 0
                             /\ sudo = <<>> => Len(oc) = Len(yubikeys)
                             /\ \A k \in 1..Len(oc) : oc[k].outcome = "returned"
                             /\ \A n \in 1..Len(scans) : scans[n].outcome = "returned"))

\* on over two inactive devices: the first was bound, someone bound the
\* second meanwhile, and the call on the second raised; the first stays
\* bound
C10_Witness ==
    /\ pc = "exited"
    /\ "on" \in Range(argv)
    /\ Len(yubikeys) = 2
    /\ Len(OwnCalls) = 2
    /\ OwnCalls[1].ret = TRUE
    /\ OwnCalls[1].pre = {}
    /\ OwnCalls[2].outcome = "raised"
    /\ Len(writes) = 1
    /\ Cardinality(CallsOf("external")) = 1
    /\ driver = {IfA, IfB}

====
